---------------------------- MODULE Spec2Model ----------------------------
(***************************************************************************)
(* Model of refine_wordlist.py: a wordlist curator that reads candidate    *)
(* lines from a source file, auto-accepts long words, prompts for short    *)
(* ones, and appends every decision to one of two accumulator files.       *)
(*                                                                         *)
(* Text is modelled at character level: a string is a sequence of          *)
(* one-character strings, a file is the string of its content, and a list  *)
(* of lines is a sequence of strings, each (but possibly the last of a     *)
(* file) ending in NL.                                                     *)
(***************************************************************************)
EXTENDS Integers, Sequences, FiniteSets, TLC

VARIABLES
    srcExists,        \* oldlist.txt exists
    srcFile,          \* content of oldlist.txt
    accExists,        \* newlist.txt exists
    accDisk,          \* content of newlist.txt as stored on disk
    accBuf,           \* text written to outFile and still in its buffer
    rejExists,        \* rejects.txt exists
    rejDisk,          \* content of rejects.txt as stored on disk
    rejBuf,           \* text written to rejectFile and still in its buffer
    alreadyAccepted,  \* main's list of accepted lines
    alreadyRejected,  \* main's list of rejected lines
    inLines,          \* inFile.readlines()
    idx,              \* position of the loop in inLines
    pc,               \* "start", "loop", "prompt", "done", "error"
    stdout,           \* what has been printed, in order
    lastInput,        \* the line the user typed at the last prompt
    run               \* number of the current execution of main

vars == <<srcExists, srcFile, accExists, accDisk, accBuf, rejExists, rejDisk,
          rejBuf, alreadyAccepted, alreadyRejected, inLines, idx, pc, stdout,
          lastInput, run>>

-----------------------------------------------------------------------------
(* Bounds *)

\* most pieces a source file is put together from
MaxSrc == 2
\* most executions of main in a row
MaxRuns == 2
\* longest string given to findRelatedWords when it is checked on its own
MaxLen == 4

-----------------------------------------------------------------------------
(* Text *)

NL == "\n"
Whitespace == {" ", NL}

\* str.lower(), one character
LowerChar(c) == CASE c = "A" -> "a"
                  [] c = "C" -> "c"
                  [] OTHER -> c

\* str.lower()
lower(s) == [i \in 1..Len(s) |-> LowerChar(s[i])]

\* str.strip(): leading and trailing whitespace removed
RECURSIVE lstrip(_)
lstrip(s) == IF s # <<>> /\ Head(s) \in Whitespace THEN lstrip(Tail(s)) ELSE s

RECURSIVE rstrip(_)
rstrip(s) == IF s # <<>> /\ s[Len(s)] \in Whitespace
             THEN rstrip(SubSeq(s, 1, Len(s) - 1)) ELSE s

strip(s) == rstrip(lstrip(s))

\* str.endswith(suffix)
endswith(s, suffix) ==
    /\ Len(suffix) <= Len(s)
    /\ SubSeq(s, Len(s) - Len(suffix) + 1, Len(s)) = suffix

\* str.removesuffix(suffix)
removesuffix(s, suffix) ==
    IF suffix # <<>> /\ endswith(s, suffix)
    THEN SubSeq(s, 1, Len(s) - Len(suffix)) ELSE s

\* the possessive suffix "'s"
Possessive == <<"'", "s">>

\* Python's `a in b` on strings
contains(b, a) ==
    \E i \in 0..(Len(b) - Len(a)) : SubSeq(b, i + 1, i + Len(a)) = a

\* Python's `x in list`
member(x, list) == \E i \in 1..Len(list) : list[i] = x

\* file.readlines(): the content cut after every NL, line ends kept; a last
\* line without NL is returned as it is
RECURSIVE readlinesFrom(_, _)
readlinesFrom(content, line) ==
    IF content = <<>>
    THEN IF line = <<>> THEN <<>> ELSE <<line>>
    ELSE IF Head(content) = NL
         THEN <<Append(line, NL)>> \o readlinesFrom(Tail(content), <<>>)
         ELSE readlinesFrom(Tail(content), Append(line, Head(content)))

readlines(content) == readlinesFrom(content, <<>>)

-----------------------------------------------------------------------------
(* findRelatedWords *)

\* the loop of findRelatedWords with the test in one direction only: the
\* target in the word, and not the word in the target
RECURSIVE relatedLoopOneWay(_, _, _)
relatedLoopOneWay(target, wordlist, output) ==
    IF wordlist = <<>> THEN output
    ELSE LET word == strip(Head(wordlist))
             lowerword == lower(word)
         IN IF Len(word) > 2 /\ contains(lowerword, target)
            THEN relatedLoopOneWay(target, Tail(wordlist), Append(output, word))
            ELSE relatedLoopOneWay(target, Tail(wordlist), output)

\* the loop of findRelatedWords over the remaining words, with the reversed
\* order a prepend in place of the append would give
RECURSIVE relatedLoopPrepend(_, _, _)
relatedLoopPrepend(target, wordlist, output) ==
    IF wordlist = <<>> THEN output
    ELSE LET word == strip(Head(wordlist))
             lowerword == lower(word)
         IN IF /\ Len(word) > 2
               /\ contains(lowerword, target) \/ contains(target, lowerword)
            THEN relatedLoopPrepend(target, Tail(wordlist), <<word>> \o output)
            ELSE relatedLoopPrepend(target, Tail(wordlist), output)

\* the loop of findRelatedWords: every word of wordlist is stripped, those of
\* at most 2 characters are filtered out, and a word is appended to output
\* when the target is in its lower case form or the other way round
RECURSIVE relatedLoop(_, _, _)
relatedLoop(target, wordlist, output) ==
    IF wordlist = <<>> THEN output
    ELSE LET word == strip(Head(wordlist))
             lowerword == lower(word)
         IN IF /\ Len(word) > 2
               /\ contains(lowerword, target) \/ contains(target, lowerword)
            THEN relatedLoop(target, Tail(wordlist), Append(output, word))
            ELSE relatedLoop(target, Tail(wordlist), output)

findRelatedWords(target, wordlist) ==
    relatedLoop(lower(strip(target)), wordlist, <<>>)


-----------------------------------------------------------------------------
(* main *)

\* line 15 with the test on the rejected list left out
undecidedAcceptedOnly(srcWord) == ~member(srcWord, alreadyAccepted)

\* line 15: srcWord not in alreadyAccepted and srcWord not in alreadyRejected
undecided(srcWord) ==
    ~member(srcWord, alreadyAccepted) /\ ~member(srcWord, alreadyRejected)

\* line 16 with the suffix removed from the raw line before the trim
autoAcceptedSuffixFirst(srcWord) ==
    Len(strip(removesuffix(srcWord, Possessive))) > 3

\* line 16 with the threshold one too high
autoAcceptedOver4(srcWord) ==
    Len(removesuffix(strip(srcWord), Possessive)) > 4

\* line 16: len(srcWord.strip().removesuffix("'s")) > 3
autoAccepted(srcWord) ==
    Len(removesuffix(strip(srcWord), Possessive)) > 3

\* inputYesNo(message, default) of easy_user_input, on the line the user
\* types: the empty line gives the default
inputYesNo(line, default) ==
    IF line = "" THEN default ELSE line = "y"

\* the lines a user answers a prompt with
Inputs == {"y", "n", ""}

\* one print of main
Printed(kind, words) == [kind |-> kind, words |-> words]

\* lines 22-26: what main prints for srcWord up to and including the prompt
promptOutput(srcWord) ==
    LET relatedAccepted == findRelatedWords(srcWord, alreadyAccepted)
        relatedRejected == findRelatedWords(srcWord, alreadyRejected)
    IN (IF Len(relatedAccepted) > 0
        THEN <<Printed("related words accepted", relatedAccepted)>> ELSE <<>>)
       \o
       (IF Len(relatedRejected) > 0
        THEN <<Printed("related words rejected", relatedRejected)>> ELSE <<>>)
       \o
       <<Printed("accept", <<strip(srcWord)>>)>>

\* the word the loop is at
srcWord == inLines[idx]
InLoop == pc = "loop" /\ idx <= Len(inLines)

\* lines 9-14 with the two append handles opened before the source file
StartAppendFirst ==
    /\ pc = "start"
    /\ alreadyAccepted' = (IF accExists THEN readlines(accDisk) ELSE <<>>)
    /\ alreadyRejected' = (IF rejExists THEN readlines(rejDisk) ELSE <<>>)
    /\ rejExists' = TRUE
    /\ accExists' = TRUE
    /\ IF srcExists
       THEN /\ inLines' = readlines(srcFile)
            /\ pc' = "loop"
       ELSE /\ inLines' = inLines
            /\ pc' = "error"
    /\ UNCHANGED <<lastInput, srcExists, srcFile, accDisk, accBuf, rejDisk, rejBuf, idx,
                   stdout, run>>

\* lines 9-14: the prior decisions are loaded (an absent file gives the empty
\* list), the source file is opened (FileNotFoundError when it is absent,
\* which nothing catches), then rejects.txt and newlist.txt are opened for
\* appending, which creates them, and the source lines are read
Start ==
    /\ pc = "start"
    /\ alreadyAccepted' = (IF accExists THEN readlines(accDisk) ELSE <<>>)
    /\ alreadyRejected' = (IF rejExists THEN readlines(rejDisk) ELSE <<>>)
    /\ IF srcExists
       THEN /\ rejExists' = TRUE
            /\ accExists' = TRUE
            /\ inLines' = readlines(srcFile)
            /\ pc' = "loop"
       ELSE /\ UNCHANGED <<rejExists, accExists, inLines>>
            /\ pc' = "error"
    /\ UNCHANGED <<lastInput, srcExists, srcFile, accDisk, accBuf, rejDisk, rejBuf, idx,
                   stdout, run>>

\* line 15 with a decided word written to the accepted side once more
SkipRewrite ==
    /\ InLoop
    /\ ~undecided(srcWord)
    /\ accBuf' = accBuf \o srcWord
    /\ alreadyAccepted' = Append(alreadyAccepted, srcWord)
    /\ idx' = idx + 1
    /\ UNCHANGED <<lastInput, srcExists, srcFile, accExists, accDisk, rejExists, rejDisk,
                   rejBuf, alreadyRejected, inLines, pc, stdout, run>>

\* line 15, condition false: the loop goes on to the next line
Skip ==
    /\ InLoop
    /\ ~undecided(srcWord)
    /\ idx' = idx + 1
    /\ UNCHANGED <<lastInput, srcExists, srcFile, accExists, accDisk, accBuf, rejExists,
                   rejDisk, rejBuf, alreadyAccepted, alreadyRejected, inLines,
                   pc, stdout, run>>

\* lines 16-19: a long word is written to outFile and appended to the list
AutoAccept ==
    /\ InLoop
    /\ undecided(srcWord)
    /\ autoAccepted(srcWord)
    /\ accBuf' = accBuf \o srcWord
    /\ alreadyAccepted' = Append(alreadyAccepted, srcWord)
    /\ idx' = idx + 1
    /\ UNCHANGED <<lastInput, srcExists, srcFile, accExists, accDisk, rejExists, rejDisk,
                   rejBuf, alreadyRejected, inLines, pc, stdout, run>>

\* lines 20-26: the related words are printed and inputYesNo shows the
\* prompt and waits for a line
AskPrompt ==
    /\ InLoop
    /\ undecided(srcWord)
    /\ ~autoAccepted(srcWord)
    /\ stdout' = stdout \o promptOutput(srcWord)
    /\ pc' = "prompt"
    /\ UNCHANGED <<lastInput, srcExists, srcFile, accExists, accDisk, accBuf, rejExists,
                   rejDisk, rejBuf, alreadyAccepted, alreadyRejected, inLines,
                   idx, run>>

\* lines 26-31 with a rejected word recorded on the accepted side as well
AnswerBothSides(line) ==
    /\ pc = "prompt"
    /\ lastInput' = line
    /\ accBuf' = accBuf \o srcWord
    /\ alreadyAccepted' = Append(alreadyAccepted, srcWord)
    /\ IF inputYesNo(line, TRUE)
       THEN UNCHANGED <<rejBuf, alreadyRejected>>
       ELSE /\ rejBuf' = rejBuf \o srcWord
            /\ alreadyRejected' = Append(alreadyRejected, srcWord)
    /\ idx' = idx + 1
    /\ pc' = "loop"
    /\ UNCHANGED <<srcExists, srcFile, accExists, accDisk, rejExists, rejDisk,
                   inLines, stdout, run>>

\* lines 26-31: inputYesNo returns and the word goes to one side
Answer(line) ==
    /\ pc = "prompt"
    /\ lastInput' = line
    /\ IF inputYesNo(line, TRUE)
       THEN /\ accBuf' = accBuf \o srcWord
            /\ alreadyAccepted' = Append(alreadyAccepted, srcWord)
            /\ UNCHANGED <<rejBuf, alreadyRejected>>
       ELSE /\ rejBuf' = rejBuf \o srcWord
            /\ alreadyRejected' = Append(alreadyRejected, srcWord)
            /\ UNCHANGED <<accBuf, alreadyAccepted>>
    /\ idx' = idx + 1
    /\ pc' = "loop"
    /\ UNCHANGED <<srcExists, srcFile, accExists, accDisk, rejExists, rejDisk,
                   inLines, stdout, run>>

\* line 13: outFile is a buffered handle that nothing flushes; the buffer
\* reaches the disk when the runtime decides to drain it
FlushOut ==
    /\ pc \in {"loop", "prompt"}
    /\ accBuf # <<>>
    /\ accDisk' = accDisk \o accBuf
    /\ accBuf' = <<>>
    /\ UNCHANGED <<lastInput, srcExists, srcFile, accExists, rejExists, rejDisk, rejBuf,
                   alreadyAccepted, alreadyRejected, inLines, idx, pc, stdout,
                   run>>

\* line 12: the same for rejectFile
FlushReject ==
    /\ pc \in {"loop", "prompt"}
    /\ rejBuf # <<>>
    /\ rejDisk' = rejDisk \o rejBuf
    /\ rejBuf' = <<>>
    /\ UNCHANGED <<lastInput, srcExists, srcFile, accExists, accDisk, accBuf, rejExists,
                   alreadyAccepted, alreadyRejected, inLines, idx, pc, stdout,
                   run>>

\* lines 11-14: the loop ends and the three with-blocks close their files,
\* which writes out what the buffers hold
Finish ==
    /\ pc = "loop"
    /\ idx > Len(inLines)
    /\ accDisk' = accDisk \o accBuf
    /\ rejDisk' = rejDisk \o rejBuf
    /\ accBuf' = <<>>
    /\ rejBuf' = <<>>
    /\ pc' = "done"
    /\ UNCHANGED <<lastInput, srcExists, srcFile, accExists, rejExists, alreadyAccepted,
                   alreadyRejected, inLines, idx, stdout, run>>

\* lines 74-75: the program is executed again, the three files as they are
Rerun ==
    /\ pc = "done"
    /\ run < MaxRuns
    /\ run' = run + 1
    /\ pc' = "start"
    /\ alreadyAccepted' = <<>>
    /\ alreadyRejected' = <<>>
    /\ inLines' = <<>>
    /\ idx' = 1
    /\ stdout' = <<>>
    /\ lastInput' = ""
    /\ UNCHANGED <<srcExists, srcFile, accExists, accDisk, accBuf, rejExists,
                   rejDisk, rejBuf>>

-----------------------------------------------------------------------------
(* The files the program is started on *)

\* all sequences over S of length at most n
BoundedSeq(S, n) == UNION {[1..k -> S] : k \in 0..n}

RECURSIVE Flatten(_)
Flatten(pieces) ==
    IF pieces = <<>> THEN <<>> ELSE Head(pieces) \o Flatten(Tail(pieces))

\* pieces of source text: four lines, an empty line and a word without a
\* line end
SourcePieces ==
    { <<"c", "a", "t", "s", NL>>,
      <<NL>>,
      <<"c", "a", "t", NL>>,
      <<"c", "a", "t", "'", "s", NL>>,
      <<"a", "t", NL>>,
      <<"c", "a", "t">> }

SourceFiles == {Flatten(p) : p \in BoundedSeq(SourcePieces, MaxSrc)}

\* what newlist.txt and rejects.txt may hold from earlier use
HistoryFiles ==
    { <<>>,
      <<"C", "a", "t", NL>>,
      <<"c", "a", "t">> }

Init ==
    /\ srcExists \in BOOLEAN
    /\ srcFile \in SourceFiles
    /\ srcExists = FALSE => srcFile = <<>>
    /\ accExists \in BOOLEAN
    /\ accDisk \in HistoryFiles
    /\ accExists = FALSE => accDisk = <<>>
    /\ rejExists \in BOOLEAN
    /\ rejDisk \in HistoryFiles
    /\ rejExists = FALSE => rejDisk = <<>>
    /\ accBuf = <<>>
    /\ rejBuf = <<>>
    /\ alreadyAccepted = <<>>
    /\ alreadyRejected = <<>>
    /\ inLines = <<>>
    /\ idx = 1
    /\ pc = "start"
    /\ stdout = <<>>
    /\ lastInput = ""
    /\ run = 1

Next ==
    \/ Start
    \/ Skip
    \/ AutoAccept
    \/ AskPrompt
    \/ \E line \in Inputs : Answer(line)
    \/ FlushOut
    \/ FlushReject
    \/ Finish
    \/ Rerun

Spec == Init /\ [][Next]_vars

-----------------------------------------------------------------------------
(* findRelatedWords on its own: line 20 reached with a one-word list *)

RelatedAlphabet == {"a", "A", " "}
RelatedStrings == BoundedSeq(RelatedAlphabet, MaxLen)

InitRelated ==
    /\ srcExists = TRUE
    /\ srcFile = <<>>
    /\ accExists = TRUE
    /\ accDisk = <<>>
    /\ accBuf = <<>>
    /\ rejExists = TRUE
    /\ rejDisk = <<>>
    /\ rejBuf = <<>>
    /\ inLines \in {<<target>> : target \in RelatedStrings}
    /\ alreadyAccepted \in {<<w>> : w \in RelatedStrings}
    /\ alreadyRejected = <<>>
    /\ idx = 1
    /\ pc = "call"
    /\ stdout = <<>>
    /\ lastInput = ""
    /\ run = 1

\* line 20: relatedAccepted = findRelatedWords(srcWord, alreadyAccepted)
CallRelated ==
    /\ pc = "call"
    /\ stdout' = <<Printed("returned", findRelatedWords(srcWord, alreadyAccepted))>>
    /\ pc' = "returned"
    /\ UNCHANGED <<srcExists, srcFile, accExists, accDisk, accBuf, rejExists,
                   rejDisk, rejBuf, alreadyAccepted, alreadyRejected, inLines,
                   idx, lastInput, run>>

NextRelated == CallRelated

SpecRelated == InitRelated /\ [][NextRelated]_vars

-----------------------------------------------------------------------------
(* Properties *)

\* everything written to newlist.txt / rejects.txt so far: what the disk
\* holds followed by what the handle still buffers
accFile == accDisk \o accBuf
rejFile == rejDisk \o rejBuf

\* the step deals with the word the loop is at: it moves on or it prompts
HandlesWord == InLoop /\ (idx' # idx \/ pc' = "prompt")

\* the step appends the word to the accepted side without a prompt
AcceptsSilently ==
    /\ pc' = "loop"
    /\ idx' = idx + 1
    /\ alreadyAccepted' = Append(alreadyAccepted, srcWord)
    /\ accFile' = accFile \o srcWord
    /\ stdout' = stdout

RejectedSideUnchanged ==
    UNCHANGED <<alreadyRejected, rejDisk, rejBuf>>

AcceptedSideUnchanged ==
    UNCHANGED <<alreadyAccepted, accDisk, accBuf>>

IsPrefix(a, b) == Len(a) <= Len(b) /\ SubSeq(b, 1, Len(a)) = a

\* C1: a source word that is verbatim in the accepted or in the rejected
\* list when the loop reaches it causes no prompt and no write: the step past
\* it leaves both lists, both files and the output as they are.
C1_DecidedWordIsSkipped ==
    [][ (InLoop /\ (member(srcWord, alreadyAccepted)
                    \/ member(srcWord, alreadyRejected)))
        => /\ pc' # "prompt"
           /\ idx' # idx =>
                /\ AcceptedSideUnchanged
                /\ RejectedSideUnchanged
                /\ UNCHANGED <<stdout, accExists, rejExists>> ]_vars

\* C1 witness: the source holds the same line twice, the first was decided
\* in this run and the loop has passed the second without recording it again.
C1_Witness ==
    /\ pc = "loop"
    /\ run = 1
    /\ idx = 3
    /\ inLines[1] = inLines[2]
    /\ Len(alreadyAccepted) + Len(alreadyRejected) = 1

\* C2: a second execution on the same source, the files left as the first
\* wrote them, issues no prompt and leaves both files as they were.
C2_SecondRunChangesNothing ==
    [][ run = 2 => /\ pc' # "prompt"
                   /\ accFile' = accFile
                   /\ rejFile' = rejFile
                   /\ accDisk' = accDisk
                   /\ rejDisk' = rejDisk ]_vars

\* every source line is in one of the two lists
Covered ==
    \A i \in 1..Len(inLines) :
        member(inLines[i], alreadyAccepted) \/ member(inLines[i], alreadyRejected)

\* no line is in both lists
Disjoint ==
    \A i \in 1..Len(alreadyAccepted) :
        ~member(alreadyAccepted[i], alreadyRejected)

\* C3 as stated: after a full run every source word is in the accepted or
\* the rejected list and no word is in both, whatever the files held.
C3_PartitionWhateverTheFilesHeld ==
    pc = "done" => Covered /\ Disjoint

\* C3 amended: after a full run every source word is in the accepted or the
\* rejected list, and the run puts no word in both: lists that share no word
\* keep sharing none at every step of the run.
C3_PartitionFromDisjointFiles ==
    [][ /\ pc' = "done" => Covered'
        /\ (pc \in {"loop", "prompt"} /\ Disjoint) => Disjoint' ]_vars

\* C3 witness: a full run over two source words ended with a word on each
\* side and none on both.
C3_Witness ==
    /\ pc = "done"
    /\ Len(inLines) = 2
    /\ Len(alreadyAccepted) > 0
    /\ Len(alreadyRejected) > 0
    /\ Covered
    /\ Disjoint

\* C4 as stated: a source word w with len(strip(w.removesuffix("'s"))) > 3
\* (suffix removed from the raw line, then trimmed) is appended to the
\* accepted file and list without a prompt.
C4_AutoAcceptSuffixFirst ==
    [][ (HandlesWord /\ Len(strip(removesuffix(srcWord, Possessive))) > 3)
        => AcceptsSilently ]_vars

\* C4 amended: a source word w that is in neither list when reached and has
\* len(strip(w).removesuffix("'s")) > 3 (trimmed, then the suffix removed) is
\* appended to the accepted file and list without a prompt.
C4_AutoAcceptTrimFirst ==
    [][ (HandlesWord /\ ~member(srcWord, alreadyAccepted)
                     /\ ~member(srcWord, alreadyRejected)
                     /\ Len(removesuffix(strip(srcWord), Possessive)) > 3)
        => AcceptsSilently ]_vars

\* C4 witness: a possessive whose stem is longer than 3 was the first source
\* line and has been accepted with nothing printed.
C4_Witness ==
    /\ pc = "loop"
    /\ idx = 2
    /\ endswith(strip(inLines[1]), Possessive)
    /\ Len(strip(inLines[1])) > 5
    /\ alreadyAccepted = <<inLines[1]>>
    /\ accFile = inLines[1]
    /\ stdout = <<>>

\* what the call of findRelatedWords returned
Returned == stdout[1].words

\* C5 as stated: findRelatedWords(target, [w]) is [w] if and only if
\* (lower(target) is in lower(w) or lower(w) is in lower(target)) and
\* len(w.strip()) > 2, and the empty list otherwise.
C5_RelatedSingleRaw ==
    pc = "returned" =>
        LET target == inLines[1]
            w == alreadyAccepted[1]
        IN Returned =
             IF /\ contains(lower(w), lower(target)) \/ contains(lower(target), lower(w))
                /\ Len(strip(w)) > 2
             THEN <<w>> ELSE <<>>

\* C5 amended: findRelatedWords(target, [w]) is [w.strip()] if and only if
\* (lower(target.strip()) is in lower(w.strip()) or lower(w.strip()) is in
\* lower(target.strip())) and len(w.strip()) > 2, and the empty list
\* otherwise.
C5_RelatedSingleStripped ==
    pc = "returned" =>
        LET target == strip(inLines[1])
            w == strip(alreadyAccepted[1])
        IN Returned =
             IF /\ contains(lower(w), lower(target)) \/ contains(lower(target), lower(w))
                /\ Len(w) > 2
             THEN <<w>> ELSE <<>>

\* C5 witness: a word with white space around it was found related to a
\* target with white space around it, and came back without the white space.
C5_Witness ==
    /\ pc = "returned"
    /\ Returned = <<strip(alreadyAccepted[1])>>
    /\ strip(alreadyAccepted[1]) # alreadyAccepted[1]
    /\ strip(inLines[1]) # inLines[1]
    /\ lower(strip(inLines[1])) # lower(strip(alreadyAccepted[1]))

\* C6 as stated: at every point of a run the files on disk hold the same
\* words in the same order as the lists in memory.
C6_DiskInLockstep ==
    pc \in {"loop", "prompt", "done"} =>
        /\ readlines(accDisk) = alreadyAccepted
        /\ readlines(rejDisk) = alreadyRejected

\* C7: with the source file absent the run ends in the uncaught error with
\* nothing printed and the two other files neither created nor changed; with
\* the source present an absent accepted or rejected file is an empty
\* history and the run goes on.
C7_MissingSourceIsFatal ==
    [][ /\ pc = "start" =>
            IF srcExists
            THEN /\ pc' = "loop"
                 /\ ~accExists => alreadyAccepted' = <<>>
                 /\ ~rejExists => alreadyRejected' = <<>>
            ELSE /\ pc' = "error"
                 /\ UNCHANGED <<accExists, accDisk, accBuf, rejExists, rejDisk,
                                rejBuf, stdout>>
        /\ pc = "error" => UNCHANGED vars ]_vars

\* C7 witness: the run has ended in the error and neither file exists.
C7_Witness ==
    /\ pc = "error"
    /\ ~srcExists
    /\ ~accExists
    /\ ~rejExists

\* C8: an answer appends the word to the end of exactly one side, the
\* accepted one when the prompt returns true (the empty line included), the
\* rejected one otherwise, and leaves the other side as it is; within a run
\* both lists and both files only grow at their end.
C8_OneEntryOneSide ==
    [][ /\ pc = "prompt" /\ pc' # "prompt" =>
            /\ lastInput' = "" => alreadyAccepted' = Append(alreadyAccepted, srcWord)
            /\ IF inputYesNo(lastInput', TRUE)
               THEN /\ alreadyAccepted' = Append(alreadyAccepted, srcWord)
                    /\ accFile' = accFile \o srcWord
                    /\ RejectedSideUnchanged
               ELSE /\ alreadyRejected' = Append(alreadyRejected, srcWord)
                    /\ rejFile' = rejFile \o srcWord
                    /\ AcceptedSideUnchanged
        /\ run' = run =>
            /\ IsPrefix(alreadyAccepted, alreadyAccepted')
            /\ IsPrefix(alreadyRejected, alreadyRejected')
            /\ IsPrefix(accFile, accFile')
            /\ IsPrefix(rejFile, rejFile')
            /\ IsPrefix(accDisk, accDisk')
            /\ IsPrefix(rejDisk, rejDisk') ]_vars

\* C8 witness: the first word was rejected at the prompt and the second was
\* accepted by the empty line.
C8_Witness ==
    /\ pc = "loop"
    /\ idx = 3
    /\ ~autoAccepted(inLines[1])
    /\ ~autoAccepted(inLines[2])
    /\ alreadyRejected = <<inLines[1]>>
    /\ alreadyAccepted = <<inLines[2]>>
    /\ lastInput = ""

\* C9: a prompt is issued for a source word if and only if the word is in
\* neither list when reached and its length, trimmed and then without a
\* trailing "'s", is at most 3; an undecided word whose such length is over 3
\* is appended to the accepted side with no prompt, the rejected side
\* unchanged.
C9_PromptIffUndecidedAndShort ==
    [][ LET short == Len(removesuffix(strip(srcWord), Possessive)) <= 3
            fresh == /\ ~member(srcWord, alreadyAccepted)
                     /\ ~member(srcWord, alreadyRejected)
        IN /\ (pc # "prompt" /\ pc' = "prompt") => (InLoop /\ fresh /\ short)
           /\ (HandlesWord /\ fresh /\ short) => pc' = "prompt"
           /\ (HandlesWord /\ fresh /\ ~short) =>
                  (AcceptsSilently /\ RejectedSideUnchanged) ]_vars

\* C9 witness: the prompt is up for a possessive of more than 3 characters
\* whose stem has 3.
C9_Witness ==
    /\ pc = "prompt"
    /\ endswith(strip(srcWord), Possessive)
    /\ Len(strip(srcWord)) = 5

\* findRelatedWords stated over the whole list: the stripped entries that
\* are longer than 2 and contain, or are contained in, the stripped lower
\* case target, in the order of the list
RelatedEntries(target, wordlist) ==
    LET t == lower(strip(target))
        stripped == [i \in 1..Len(wordlist) |-> strip(wordlist[i])]
        matches(x) == Len(x) > 2 /\ (contains(lower(x), t) \/ contains(t, lower(x)))
    IN SelectSeq(stripped, matches)

\* C10: what precedes a prompt is computed over the two lists as they stand
\* at that moment, words decided earlier in the run included: the related
\* accepted entries, then the related rejected entries, each in list order
\* and each printed only when it is not empty, then the prompt.
C10_AdvisoryFromCurrentLists ==
    /\ \A i \in 1..Len(stdout) :
          stdout[i].kind # "accept" => stdout[i].words # <<>>
    /\ pc = "prompt" =>
          LET ra == RelatedEntries(srcWord, alreadyAccepted)
              rr == RelatedEntries(srcWord, alreadyRejected)
              expected ==
                  (IF ra # <<>> THEN <<Printed("related words accepted", ra)>> ELSE <<>>)
                  \o (IF rr # <<>> THEN <<Printed("related words rejected", rr)>> ELSE <<>>)
                  \o <<Printed("accept", <<strip(srcWord)>>)>>
          IN /\ Len(stdout) >= Len(expected)
             /\ SubSeq(stdout, Len(stdout) - Len(expected) + 1, Len(stdout)) = expected

\* C10 witness: with no earlier history "cats" was accepted in this run and
\* the prompt for "cat" is up, preceded by the related accepted list holding
\* "cats".
C10_Witness ==
    /\ pc = "prompt"
    /\ inLines = << <<"c", "a", "t", "s", NL>>, <<"c", "a", "t", NL>> >>
    /\ idx = 2
    /\ alreadyAccepted = << <<"c", "a", "t", "s", NL>> >>
    /\ alreadyRejected = <<>>
    /\ stdout = << Printed("related words accepted", << <<"c", "a", "t", "s">> >>),
                   Printed("accept", << <<"c", "a", "t">> >>) >>

=============================================================================
